---- MODULE Spec2Model ----
(***************************************************************************)
(* Model of the PBR-2-Source GUI controller (src/module/gui/__init__.py)   *)
(* and of its CoreBackend (src/module/gui/backend.py): the channel store,  *)
(* the re-entrancy guarded export entry point and the debounced watch      *)
(* loop.                                                                   *)
(*                                                                         *)
(* Everything runs on the Qt GUI thread.  A handler runs without           *)
(* interruption until it enters a nested event loop                        *)
(* (QApplication.processEvents, QFileDialog, QMessageBox.exec); there      *)
(* other handlers are dispatched on top of it and run before it resumes.   *)
(* "stack" holds the handlers suspended in such a nested loop, innermost   *)
(* last.  One action is one uninterrupted run of a handler between two     *)
(* suspension points.                                                      *)
(*                                                                         *)
(* None is written 0 for paths, targets and contents; a file whose content *)
(* is Corrupt cannot be decoded.                                           *)
(***************************************************************************)
EXTENDS Integers, Sequences, FiniteSets, TLC

\* ---------------------------------------------------------------- bounds
NumRoles == 2
NumPaths == 2
NumContents == 1
NumTargets == 1
TickMs == 250
MaxDepth == 3
NumSizes == 2
MaxDirs == 3
NumTextures == 2

\* ------------------------------------------------------------- constants
DebounceMs == 500

RoleSeq == <<"albedo", "roughness", "metallic", "emit", "ao", "normal", "height">>
Roles == {RoleSeq[i] : i \in 1..NumRoles}
Paths == 1..NumPaths
Contents == 1..NumContents
Corrupt == 0
Targets == 1..NumTargets
NoImage == <<0, 0>>
NoMat == [r \in Roles |-> 0]
\* No file written: the descriptor's target (0: none), the number of
\* textures saved, and the Material they were made from.
Nothing == [vmt |-> 0, n |-> 0, mat |-> NoMat]

VARIABLES
  rolePath,         \* CoreBackend.<role>Path : 0 or the picked source path
  image,            \* CoreBackend.<role>     : NoImage or <<path, content>> it was decoded from
  disk,             \* content of every source file (Corrupt: cannot be decoded)
  written,          \* the files written by the step that produced this state
  target,           \* MainWindow.target : 0 or the chosen output file
  exporting,        \* MainWindow.exporting
  watching,         \* MainWindow.watching
  watcherFiles,     \* MainWindow.watcher.files()
  watcherCooldown,  \* remaining ms of the single-shot timer, -1 when inactive
  progress,         \* progressBar value
  exportEnabled,    \* exportButton enabled
  reloadOnExport,   \* config.reloadOnExport
  stack,            \* handlers suspended in a nested event loop, innermost last
  sinceNotify,      \* ms since on_file_changed last ran (capped at DebounceMs)
  last,             \* the step that produced this state: action, outcome, trigger
  pending,          \* is a handled file change waiting for an export cycle to start:
                    \* "yes", "no", or "off" when changes are not followed
  calc              \* the call in progress when one backend function is run on its own

vars == <<rolePath, image, disk, written, target, exporting, watching, watcherFiles,
          watcherCooldown, progress, exportEnabled, reloadOnExport, stack, sinceNotify, last,
          pending, calc>>

mainVars == <<rolePath, image, disk, written, target, exporting, watching, watcherFiles,
              watcherCooldown, progress, exportEnabled, reloadOnExport, stack, sinceNotify, last,
              pending>>
backendVars == <<rolePath, image>>
guiVars == <<target, exporting, watching, watcherFiles, progress, exportEnabled>>

Min(a, b) == IF a < b THEN a ELSE b
Max(a, b) == IF a > b THEN a ELSE b

Last(op, res, trig) == [op |-> op, res |-> res, trig |-> trig]
Frame(op, pc, trig, mat) == [op |-> op, pc |-> pc, trig |-> trig, mat |-> mat]
Top == stack[Len(stack)]
Pop == SubSeq(stack, 1, Len(stack) - 1)
Push(f) == Append(stack, f)

\* The user can reach the main window: no modal dialog is open.
UserInput == \A i \in 1..Len(stack) : stack[i].pc = "events"

\* The non-absent per-role source paths held by the backend.
CurrentPaths == {rolePath[r] : r \in Roles} \ {0}

\* No backend function is being run on its own.
NoCalc == [op |-> "none"]

\* The new value of pending: it stays "off" when changes are not followed.
Followed(v) == IF pending = "off" THEN "off" ELSE v

Init ==
  /\ rolePath = [r \in Roles |-> 0]
  /\ image = [r \in Roles |-> NoImage]
  /\ disk \in [Paths -> {Corrupt} \cup Contents]
  /\ written = Nothing
  /\ target = 0
  /\ exporting = FALSE
  /\ watching = FALSE
  /\ watcherFiles = {}
  /\ watcherCooldown = -1
  /\ progress = 0
  /\ exportEnabled = TRUE
  /\ reloadOnExport \in BOOLEAN
  /\ stack = <<>>
  /\ sinceNotify = DebounceMs
  /\ last = Last("init", "ok", "-")
  /\ pending = "off"
  /\ calc = NoCalc

\* ------------------------------------------------------------ watch set
\* start_watch: watcher.addPaths of every non-None role path.
start_watch(files, paths) == files \cup ({paths[r] : r \in Roles} \ {0})

\* stop_watch: watcher.removePaths(watcher.files()).
stop_watch_keep(files) == files
stop_watch(files) == files \ files

\* reset_watch: nothing unless watching; else stop_watch then start_watch.
reset_watch_nostop(files, paths) ==
  IF ~watching THEN files ELSE start_watch(files, paths)
reset_watch(files, paths) ==
  IF ~watching THEN files ELSE start_watch(stop_watch(files), paths)

\* ---------------------------------------------------------- CoreBackend
\* QtIOBackend.load / load_qimage followed by the conversion: raises on a
\* file that cannot be decoded.
Decodable(p) == disk[p] # Corrupt

\* CoreBackend.convert: decode the file, then store the image for the role.
convert(img, p, r) == [img EXCEPT ![r] = <<p, disk[p]>>]

\* CoreBackend.pick: the path is stored first; then the image is decoded
\* and cached (raising leaves the cache as it was), or dropped for None.
pickPath(paths, p, r) == [paths EXCEPT ![r] = p]
pickImage(img, p, r) ==
  IF p # 0
    THEN IF Decodable(p) THEN convert(img, p, r) ELSE img
    ELSE [img EXCEPT ![r] = NoImage]
pickRaises(p) == p # 0 /\ ~Decodable(p)

\* MainWindow.picked on the backend and the watcher: backend.pick, then
\* reset_watch (skipped when pick raised).
pickedResult(st, kind, p) ==
  [paths |-> pickPath(st.paths, p, kind),
   image |-> pickImage(st.image, p, kind),
   files |-> IF pickRaises(p) THEN st.files
             ELSE reset_watch(st.files, pickPath(st.paths, p, kind)),
   raised |-> st.raised \/ pickRaises(p)]

Backend == [paths |-> rolePath, image |-> image, files |-> watcherFiles, raised |-> FALSE]

\* A path is dropped on a PickableImage (p # 0) or its icon is right-clicked
\* (p = 0): reload emits picked.
picked(kind, p) ==
  /\ UserInput
  /\ LET st == pickedResult(Backend, kind, p) IN
     /\ rolePath' = st.paths
     /\ image' = st.image
     /\ watcherFiles' = st.files
     /\ last' = Last("picked", IF st.raised THEN "raised" ELSE "ok", "-")
  /\ written' = Nothing
  /\ UNCHANGED <<disk, target, exporting, watching, watcherCooldown,
                 progress, exportEnabled, reloadOnExport, calc, pending, stack, sinceNotify>>

\* make_material.getImage: with noCache the stored path is decoded again
\* (and cached by convert); otherwise the cached image is returned.
getImage(role, noCache, img) ==
  IF noCache
    THEN IF rolePath[role] = 0
           THEN [raised |-> FALSE, image |-> img, value |-> 0]
           ELSE IF ~Decodable(rolePath[role])
                  THEN [raised |-> TRUE, image |-> img, value |-> 0]
                  ELSE [raised |-> FALSE, image |-> convert(img, rolePath[role], role),
                        value |-> disk[rolePath[role]]]
    ELSE [raised |-> FALSE, image |-> img, value |-> img[role][2]]

\* The order in which make_material fetches the channels, and the two it asserts.
GetOrder == <<"albedo", "roughness", "metallic", "emit", "ao", "normal", "height">>
Mandatory_albedo == {"albedo"}
Mandatory == {"albedo", "roughness"}

RECURSIVE fetch(_, _, _, _)
fetch(i, noCache, img, mat) ==
  IF i > Len(GetOrder) THEN [ok |-> TRUE, image |-> img, mat |-> mat, err |-> "none"]
  ELSE IF GetOrder[i] \notin Roles THEN fetch(i + 1, noCache, img, mat)
  ELSE LET r == GetOrder[i]
           g == getImage(r, noCache, img)
       IN IF g.raised \/ (r \in Mandatory /\ g.value = 0)
            THEN [ok |-> FALSE, image |-> g.image, mat |-> mat,
                  err |-> IF g.raised THEN "decode" ELSE "missing"]
            ELSE fetch(i + 1, noCache, g.image, [mat EXCEPT ![r] = g.value])

\* CoreBackend.make_material: the content of every channel of the Material
\* (0: the channel is absent or a synthesized default), or a failure (err:
\* the decoder raised, or the assertion on a mandatory channel failed).
make_material(noCache) == fetch(1, noCache, image, NoMat)

\* CoreBackend.export: the descriptor is written first, then one texture
\* after another.  failAt = 0: opening the descriptor fails; failAt = i:
\* saving the i-th texture fails; failAt > NumRoles: every write succeeds.
backendExport(mat, tgt, failAt) ==
  [ok |-> failAt > NumRoles,
   files |-> IF failAt = 0 THEN Nothing
             ELSE [vmt |-> tgt, n |-> Min(failAt - 1, NumRoles), mat |-> mat]]

\* ---------------------------------------------------- MainWindow.export
\* `if self.exporting: return`
exportGuard_off(flag) == FALSE
exportGuard(flag) == flag

\* export() up to QApplication.processEvents().
exportStart(trig) ==
  IF exportGuard(exporting)
    THEN /\ last' = Last("export", "noop", trig)
         /\ UNCHANGED <<exporting, exportEnabled, progress, stack, pending>>
    ELSE /\ Len(stack) < MaxDepth
         /\ exporting' = TRUE
         /\ exportEnabled' = FALSE
         /\ progress' = 0
         /\ stack' = Push(Frame("export", "events", trig, NoMat))
         /\ last' = Last("export", "started", trig)
         /\ pending' = Followed("no")

\* pick_vmt and backend.export once self.target is known, then either the
\* finally block or the QMessageBox of the except block.  stk is the stack
\* below the running export.
exportTail(op, mat, trig, failAt, stk) ==
  LET w == backendExport(mat, target', failAt) IN
  /\ written' = w.files
  /\ IF w.ok
       THEN /\ progress' = 100
            /\ exportEnabled' = TRUE
            /\ exporting' = FALSE
            /\ stack' = stk
            /\ last' = Last(op, "ok", trig)
       ELSE /\ progress' = 0
            /\ stack' = Append(stk, Frame("export", "error", trig, NoMat))
            /\ last' = Last(op, "failed", trig)
            /\ UNCHANGED <<exporting, exportEnabled>>

\* Export menu action / Ctrl+E.
export ==
  /\ UserInput
  /\ exportStart("user")
  /\ written' = Nothing
  /\ UNCHANGED <<backendVars, disk, target, watching, watcherFiles,
                 watcherCooldown, reloadOnExport, calc, sinceNotify>>

\* Export As... menu action and button.
export_as_clears ==
  /\ UserInput
  /\ target' = 0
  /\ IF exporting
       THEN /\ last' = Last("export_as", "noop", "user")
            /\ UNCHANGED <<exporting, exportEnabled, progress, stack, pending>>
       ELSE exportStart("user")
  /\ written' = Nothing
  /\ UNCHANGED <<backendVars, disk, watching, watcherFiles,
                 watcherCooldown, reloadOnExport, calc, sinceNotify>>
export_as ==
  /\ UserInput
  /\ IF exporting
       THEN /\ last' = Last("export_as", "noop", "user")
            /\ UNCHANGED <<target, exporting, exportEnabled, progress, stack, pending>>
       ELSE /\ target' = 0
            /\ exportStart("user")
  /\ written' = Nothing
  /\ UNCHANGED <<backendVars, disk, watching, watcherFiles,
                 watcherCooldown, reloadOnExport, calc, sinceNotify>>

\* watcherCooldown.timeout -> export: the single-shot timer has run down.
timeout ==
  /\ watcherCooldown = 0
  /\ watcherCooldown' = -1
  /\ exportStart("timer")
  /\ written' = Nothing
  /\ UNCHANGED <<backendVars, disk, target, watching, watcherFiles,
                 reloadOnExport, calc, sinceNotify>>

\* processEvents returns: make_material, then the target, then the writes.
exportProcessed(failAt) ==
  /\ stack # <<>>
  /\ Top.op = "export" /\ Top.pc = "events"
  /\ LET m == make_material(reloadOnExport) IN
     /\ image' = m.image
     /\ IF ~m.ok
          THEN /\ failAt = 0
               /\ progress' = 0
               /\ stack' = Append(Pop, Frame("export", "error", Top.trig, NoMat))
               /\ last' = Last("exportProcessed", "failed", Top.trig)
               /\ written' = Nothing
               /\ UNCHANGED <<target, exporting, exportEnabled>>
          ELSE IF target = 0
            THEN /\ failAt = 0
                 /\ progress' = 50
                 /\ stack' = Append(Pop, Frame("export", "target", Top.trig, m.mat))
                 /\ last' = Last("exportProcessed", "prompt", Top.trig)
                 /\ written' = Nothing
                 /\ UNCHANGED <<target, exporting, exportEnabled>>
            ELSE /\ target' = target
                 /\ exportTail("exportProcessed", m.mat, Top.trig, failAt, Pop)
  /\ UNCHANGED <<rolePath, disk, watching, watcherFiles, watcherCooldown,
                 reloadOnExport, calc, pending, sinceNotify>>

\* pick_target: the file dialog's answer (0: the user declined).
pick_target(tgt, answer) == IF answer # 0 THEN answer ELSE tgt

\* The file dialog opened by export() is answered.
exportTargetPicked(answer, failAt) ==
  /\ stack # <<>>
  /\ Top.op = "export" /\ Top.pc = "target"
  /\ target' = pick_target(target, answer)
  /\ IF target' = 0
       THEN /\ failAt = 0
            /\ progress' = 0
            /\ exportEnabled' = TRUE
            /\ exporting' = FALSE
            /\ stack' = Pop
            /\ last' = Last("exportTargetPicked", "cancelled", Top.trig)
            /\ written' = Nothing
       ELSE exportTail("exportTargetPicked", Top.mat, Top.trig, failAt, Pop)
  /\ UNCHANGED <<backendVars, disk, watching, watcherFiles, watcherCooldown,
                 reloadOnExport, calc, pending, sinceNotify>>

\* The "Failed to export!" message box is closed; the finally block runs.
exportErrorClosed_disabled ==
  /\ stack # <<>>
  /\ Top.op = "export" /\ Top.pc = "error"
  /\ exporting' = FALSE
  /\ stack' = Pop
  /\ last' = Last("exportErrorClosed", "reported", Top.trig)
  /\ written' = Nothing
  /\ UNCHANGED <<backendVars, disk, target, watching, watcherFiles, exportEnabled,
                 watcherCooldown, progress, reloadOnExport, calc, pending, sinceNotify>>
exportErrorClosed_held ==
  /\ stack # <<>>
  /\ Top.op = "export" /\ Top.pc = "error"
  /\ exportEnabled' = TRUE
  /\ stack' = Pop
  /\ last' = Last("exportErrorClosed", "reported", Top.trig)
  /\ written' = Nothing
  /\ UNCHANGED <<backendVars, disk, target, watching, watcherFiles, exporting,
                 watcherCooldown, progress, reloadOnExport, calc, pending, sinceNotify>>
exportErrorClosed_retry ==
  /\ stack # <<>>
  /\ Top.op = "export" /\ Top.pc = "error"
  /\ exportEnabled' = TRUE
  /\ exporting' = FALSE
  /\ stack' = Pop
  /\ watcherCooldown' = IF watching THEN DebounceMs ELSE watcherCooldown
  /\ last' = Last("exportErrorClosed", "reported", Top.trig)
  /\ written' = Nothing
  /\ UNCHANGED <<backendVars, disk, target, watching, watcherFiles,
                 progress, reloadOnExport, calc, pending, sinceNotify>>
exportErrorClosed ==
  /\ stack # <<>>
  /\ Top.op = "export" /\ Top.pc = "error"
  /\ exportEnabled' = TRUE
  /\ exporting' = FALSE
  /\ stack' = Pop
  /\ last' = Last("exportErrorClosed", "reported", Top.trig)
  /\ written' = Nothing
  /\ UNCHANGED <<backendVars, disk, target, watching, watcherFiles,
                 watcherCooldown, progress, reloadOnExport, calc, pending, sinceNotify>>

\* ----------------------------------------------------- MainWindow.watch
\* `self.watching = not self.watching`, then start_watch or stop_watch.
watchToggle ==
  /\ watching' = ~watching
  /\ watcherFiles' = IF watching' THEN start_watch(watcherFiles, rolePath)
                     ELSE stop_watch(watcherFiles)
  /\ pending' = IF watching' THEN pending ELSE Followed("no")

\* Watch menu action.
watch ==
  /\ UserInput
  /\ IF ~watching /\ target = 0
       THEN /\ Len(stack) < MaxDepth
            /\ stack' = Push(Frame("watch", "dialog", "-", NoMat))
            /\ last' = Last("watch", "prompt", "-")
            /\ UNCHANGED <<watching, watcherFiles, pending>>
       ELSE /\ watchToggle
            /\ last' = Last("watch", IF watching' THEN "on" ELSE "off", "-")
            /\ UNCHANGED stack
  /\ written' = Nothing
  /\ UNCHANGED <<backendVars, disk, target, exporting, watcherCooldown,
                 progress, exportEnabled, reloadOnExport, calc, sinceNotify>>

\* The file dialog opened by watch() is answered.
watchTargetPicked(answer) ==
  /\ stack # <<>>
  /\ Top.op = "watch" /\ Top.pc = "dialog"
  /\ target' = pick_target(target, answer)
  /\ stack' = Pop
  /\ IF target' = 0
       THEN /\ last' = Last("watchTargetPicked", "declined", "declined")
            /\ UNCHANGED <<watching, watcherFiles, pending>>
       ELSE /\ watchToggle
            /\ last' = Last("watchTargetPicked", IF watching' THEN "on" ELSE "off",
                         IF answer = 0 THEN "declined" ELSE "chosen")
  /\ written' = Nothing
  /\ UNCHANGED <<backendVars, disk, exporting, watcherCooldown,
                 progress, exportEnabled, reloadOnExport, calc, sinceNotify>>

\* ------------------------------------------------------------ presets
\* The PickableImage widgets in the order they were connected to
\* update_from_preset.
WidgetOrder == <<"albedo", "roughness", "metallic", "normal", "height", "ao", "emit">>

\* update_from_preset.emit: every widget takes its path from the preset and
\* emits picked; a pick that raises ends that slot only.
RECURSIVE from_preset(_, _, _)
from_preset(i, preset, st) ==
  IF i > Len(WidgetOrder) THEN st
  ELSE IF WidgetOrder[i] \notin Roles THEN from_preset(i + 1, preset, st)
  ELSE from_preset(i + 1, preset, pickedResult(st, WidgetOrder[i], preset[WidgetOrder[i]]))

\* Load Preset menu action.  The file dialog comes first and nothing is read
\* before it, so the handler is one step, taken when a file is chosen (it
\* returns at once when the dialog is cancelled): the target is reset and
\* the preset's paths are picked.
load_preset(preset) ==
  /\ UserInput
  /\ LET st == from_preset(1, preset, Backend) IN
     /\ target' = 0
     /\ rolePath' = st.paths
     /\ image' = st.image
     /\ watcherFiles' = st.files
     /\ last' = Last("load_preset", IF st.raised THEN "raised" ELSE "ok", "-")
  /\ written' = Nothing
  /\ UNCHANGED <<disk, exporting, watching, watcherCooldown, progress, exportEnabled,
                 reloadOnExport, calc, pending, stack, sinceNotify>>

\* Save Preset menu action, one step for the same reason: the target is
\* reset and the preset file is written.
save_preset_keep ==
  /\ UserInput
  /\ last' = Last("save_preset", "ok", "-")
  /\ written' = Nothing
  /\ UNCHANGED <<backendVars, disk, target, exporting, watching, watcherFiles, watcherCooldown,
                 progress, exportEnabled, reloadOnExport, calc, pending, stack, sinceNotify>>
save_preset ==
  /\ UserInput
  /\ target' = 0
  /\ last' = Last("save_preset", "ok", "-")
  /\ written' = Nothing
  /\ UNCHANGED <<backendVars, disk, exporting, watching, watcherFiles, watcherCooldown,
                 progress, exportEnabled, reloadOnExport, calc, pending, stack, sinceNotify>>

\* ------------------------------------------------- file changes, timer
\* watcherCooldown.start(500): (re)starts the single-shot timer.
cooldownStart_keep(cur) == IF cur >= 0 THEN cur ELSE DebounceMs
cooldownStart_idle(cur) == IF exporting THEN cur ELSE DebounceMs
cooldownStart(cur) == DebounceMs

\* A watched file is modified; QFileSystemWatcher.fileChanged runs
\* on_file_changed (the assert raises when watch mode is off).
on_file_changed(file, c) ==
  /\ file \in watcherFiles
  /\ disk' = [disk EXCEPT ![file] = c]
  /\ IF watching
       THEN /\ watcherCooldown' = cooldownStart(watcherCooldown)
            /\ sinceNotify' = 0
            /\ last' = Last("on_file_changed", "ok", "-")
            /\ pending' = Followed("yes")
       ELSE /\ last' = Last("on_file_changed", "raised", "-")
            /\ UNCHANGED <<watcherCooldown, sinceNotify, pending>>
  /\ written' = Nothing
  /\ UNCHANGED <<backendVars, guiVars, reloadOnExport, calc, stack>>

\* A file that is not watched is modified.
fileEdited(file, c) ==
  /\ file \notin watcherFiles
  /\ disk[file] # c
  /\ disk' = [disk EXCEPT ![file] = c]
  /\ last' = Last("fileEdited", "ok", "-")
  /\ written' = Nothing
  /\ UNCHANGED <<backendVars, guiVars, watcherCooldown, reloadOnExport, calc, pending,
                 stack, sinceNotify>>

\* TickMs milliseconds pass.
Tick ==
  /\ watcherCooldown > 0 \/ sinceNotify < DebounceMs
  /\ watcherCooldown' = IF watcherCooldown > 0 THEN Max(0, watcherCooldown - TickMs)
                        ELSE watcherCooldown
  /\ sinceNotify' = Min(sinceNotify + TickMs, DebounceMs)
  /\ UNCHANGED <<backendVars, disk, written, guiVars, reloadOnExport, calc, pending, stack, last>>

FailAts == 0..(NumRoles + 1)

Next ==
  \/ \E kind \in Roles, p \in 0..NumPaths : picked(kind, p)
  \/ export
  \/ export_as
  \/ timeout
  \/ \E failAt \in FailAts : exportProcessed(failAt)
  \/ \E answer \in 0..NumTargets, failAt \in FailAts : exportTargetPicked(answer, failAt)
  \/ exportErrorClosed
  \/ watch
  \/ \E answer \in 0..NumTargets : watchTargetPicked(answer)
  \/ \E preset \in [Roles -> 0..NumPaths] : load_preset(preset)
  \/ save_preset
  \/ \E file \in Paths, c \in {Corrupt} \cup Contents : on_file_changed(file, c)
  \/ \E file \in Paths, c \in {Corrupt} \cup Contents : fileEdited(file, c)
  \/ Tick

Spec == Init /\ [][Next]_vars

\* The same program with the file changes followed from the start, in the
\* mode in which an export decodes the files again.
NotifyInit ==
  /\ rolePath = [r \in Roles |-> 0]
  /\ image = [r \in Roles |-> NoImage]
  /\ disk \in [Paths -> {Corrupt} \cup Contents]
  /\ written = Nothing
  /\ target = 0
  /\ exporting = FALSE
  /\ watching = FALSE
  /\ watcherFiles = {}
  /\ watcherCooldown = -1
  /\ progress = 0
  /\ exportEnabled = TRUE
  /\ reloadOnExport = TRUE
  /\ stack = <<>>
  /\ sinceNotify = DebounceMs
  /\ last = Last("init", "ok", "-")
  /\ pending = "no"
  /\ calc = NoCalc

NotifySpec == NotifyInit /\ [][Next]_vars

\* The Qt event loop runs in every state (the main loop, processEvents or a
\* dialog's loop): time passes and a timer that has run down is delivered.
FairSpec == Spec /\ WF_vars(Tick) /\ WF_vars(timeout)

\* ------------------------------------------- make_material on its own
\* The main window at rest, for the specifications that run one backend
\* function on its own.
MainIdle ==
  /\ rolePath = [r \in Roles |-> 0]
  /\ image = [r \in Roles |-> NoImage]
  /\ disk = [p \in Paths |-> Corrupt]
  /\ written = Nothing
  /\ target = 0
  /\ exporting = FALSE
  /\ watching = FALSE
  /\ watcherFiles = {}
  /\ watcherCooldown = -1
  /\ progress = 0
  /\ exportEnabled = TRUE
  /\ reloadOnExport = FALSE
  /\ stack = <<>>
  /\ sinceNotify = DebounceMs
  /\ last = Last("init", "ok", "-")
  /\ pending = "off"

AllRoles == {RoleSeq[i] : i \in 1..Len(RoleSeq)}
Sizes == 1..NumSizes

\* An Image: its size, where its pixels were taken from ("cache": decoded
\* at pick time, "disk": decoded now, "blank": a constant colour), the
\* constant colour in tenths (<<>> for a decoded image) and its colour mode.
Img(size, src, color, mode) == [size |-> size, src |-> src, color |-> color, mode |-> mode]
None == Img(0, "none", <<>>, "none")

\* Image.blank(size, color): a constant image with one component per value.
blank(size, color) == Img(size, "blank", color, IF Len(color) = 1 THEN "L" ELSE "RGB")

\* texops.normalize(img, size, mode): stretched to size when one is given
\* (0: none given) and converted to the colour mode.
normalize(img, size, mode) ==
  [img EXCEPT !.size = IF size = 0 THEN @ ELSE size, !.mode = mode]

\* The file a role's image was picked from has changed since: it decodes
\* to an image of another size.
FileSize(s) == (s % NumSizes) + 1

\* The channel store in which the roles with sizes[r] # 0 were picked, an
\* image of size sizes[r] being cached for each.  Every file is decodable.
Store(sizes) ==
  [path  |-> [r \in AllRoles |-> IF sizes[r] = 0 THEN 0 ELSE 1],
   image |-> [r \in AllRoles |-> IF sizes[r] = 0 THEN None
                                 ELSE Img(sizes[r], "cache", <<>>, "any")],
   file  |-> [r \in AllRoles |-> IF sizes[r] = 0 THEN None
                                 ELSE Img(FileSize(sizes[r]), "disk", <<>>, "any")]]

\* make_material.getImage on such a store.
getImageIn_cached(st, role, noCache) == st.image[role]
getImageIn(st, role, noCache) ==
  IF noCache
    THEN IF st.path[role] = 0 THEN None ELSE st.file[role]
    ELSE st.image[role]

\* `a or b` on Image|None.
Or_left(a, b) == a
Or(a, b) == IF a # None THEN a ELSE b

\* The size each channel is normalized to (0: none is passed).
targetSize_albedo(role, albedo, normal) ==
  CASE role \in {"albedo", "normal"} -> 0
    [] OTHER -> albedo.size
targetSize(role, albedo, normal) ==
  CASE role \in {"albedo", "normal"} -> 0
    [] role \in {"roughness", "metallic", "height"} -> normal.size
    [] role \in {"emit", "ao"} -> albedo.size

\* The images convert has cached when make_material returns or raises
\* (upTo: the roles fetched so far).
cachedAfter(st, noCache, upTo) ==
  [r \in AllRoles |-> IF noCache /\ r \in upTo /\ st.path[r] # 0 THEN st.file[r]
                      ELSE st.image[r]]

\* CoreBackend.make_material with the images' sizes and colours: the
\* Material, or the assertion that failed.
makeMaterial(st, noCache) ==
  LET albedo == getImageIn(st, "albedo", noCache)
      roughness == getImageIn(st, "roughness", noCache)
      metallic == Or(getImageIn(st, "metallic", noCache), blank(roughness.size, <<0>>))
      emit == getImageIn(st, "emit", noCache)
      ao == getImageIn(st, "ao", noCache)
      normal == Or(getImageIn(st, "normal", noCache), blank(roughness.size, <<5, 5, 10>>))
      height == Or(getImageIn(st, "height", noCache), blank(normal.size, <<5>>))
  IN IF albedo = None
       THEN [ok |-> FALSE, err |-> "albedo", image |-> cachedAfter(st, noCache, {"albedo"})]
     ELSE IF roughness = None
       THEN [ok |-> FALSE, err |-> "roughness",
             image |-> cachedAfter(st, noCache, {"albedo", "roughness"})]
     ELSE [ok |-> TRUE,
           image |-> cachedAfter(st, noCache, AllRoles),
           size |-> normal.size,
           chan |-> [r \in AllRoles |->
              CASE r = "albedo" -> normalize(albedo, targetSize(r, albedo, normal), "RGB")
                [] r = "roughness" -> normalize(roughness, targetSize(r, albedo, normal), "L")
                [] r = "metallic" -> normalize(metallic, targetSize(r, albedo, normal), "L")
                [] r = "emit" -> IF emit # None
                                   THEN normalize(emit, targetSize(r, albedo, normal), "L")
                                   ELSE None
                [] r = "ao" -> IF ao # None
                                 THEN normalize(ao, targetSize(r, albedo, normal), "L")
                                 ELSE None
                [] r = "normal" -> normalize(normal, targetSize(r, albedo, normal), "RGB")
                [] r = "height" -> IF height # None
                                     THEN normalize(height, targetSize(r, albedo, normal), "L")
                                     ELSE None]]

\* A store and a setting of the no-cache option are chosen.
AsmInit ==
  /\ MainIdle
  /\ calc \in {[op |-> "store", sizes |-> s, noCache |-> b] :
                  s \in [AllRoles -> 0..NumSizes], b \in BOOLEAN}

\* make_material(noCache) is called.
assemble ==
  /\ calc.op = "store"
  /\ calc' = [op |-> "material", sizes |-> calc.sizes, noCache |-> calc.noCache,
              mat |-> makeMaterial(Store(calc.sizes), calc.noCache)]
  /\ UNCHANGED mainVars

AsmNext == assemble

AsmSpec == AsmInit /\ [][AsmNext]_vars

\* ------------------------------------ pick_vmt and export on their own
\* A string is a sequence of tokens: a directory or file name, an extension
\* or the separator "/".  An output path is its directory components and
\* its file name.
DirNames == {"materials", "a", "b"}
FileNames == {<<"c", ".vmt">>, <<"c", ".txt">>, <<"c">>, <<"materials", ".vmt">>, <<".vmt">>}
Dirs == UNION {[1..n -> DirNames] : n \in 0..MaxDirs}
OutPaths == {[dir |-> dd, file |-> f] : dd \in Dirs, f \in FileNames}

\* The names core_export gives the textures of a Material.
TexSeq == <<"_basecolor", "_bump", "_mrao", "_emit">>
Textures == SubSeq(TexSeq, 1, NumTextures)

\* str.removesuffix
removesuffix_keep(str, suffix) == str
removesuffix(str, suffix) ==
  IF Len(str) >= 1 /\ str[Len(str)] = suffix THEN SubSeq(str, 1, Len(str) - 1) ELSE str

\* `namePath = component + '/' + namePath`
prepend_after(component, namePath) == namePath \o <<component, "/">>
prepend(component, namePath) == <<component, "/">> \o namePath

\* The loop of pick_vmt over reversed(path.parts[:-1]), at parts[i].
RECURSIVE walk(_, _, _)
walk(parts, i, namePath) ==
  IF i = 0 THEN [useNamePath |-> FALSE, namePath |-> namePath]
  ELSE IF parts[i] = "materials" THEN [useNamePath |-> TRUE, namePath |-> namePath]
  ELSE walk(parts, i - 1, prepend(parts[i], namePath))

\* CoreBackend.pick_vmt: self.path and self.name.
pick_vmt(out) ==
  LET name == removesuffix(out.file, ".vmt")
      w == walk(out.dir, Len(out.dir), <<>>)
  IN [path |-> out.dir,
      name |-> IF w.useNamePath THEN w.namePath \o name ELSE name]

\* `self.name.rsplit('/', 1)[-1]`
rsplitLast_whole(str) == str
rsplitLast(str) ==
  LET seps == {i \in 1..Len(str) : str[i] = "/"}
      k == IF seps = {} THEN 0 ELSE CHOOSE i \in seps : \A j \in seps : j <= i
  IN SubSeq(str, k + 1, Len(str))

\* The files CoreBackend.export writes, in the order it writes them: each
\* is self.path / a relative name.
writes_texturesFirst(path, name) ==
  [i \in 1..Len(Textures) |->
        [dir |-> path, rel |-> rsplitLast(name) \o <<Textures[i], ".vtf">>]]
  \o <<[dir |-> path, rel |-> rsplitLast(name) \o <<".vmt">>]>>
writes(path, name) ==
  <<[dir |-> path, rel |-> rsplitLast(name) \o <<".vmt">>]>>
  \o [i \in 1..Len(Textures) |->
        [dir |-> path, rel |-> rsplitLast(name) \o <<Textures[i], ".vtf">>]]

\* CoreBackend.name when make_material ran, which is before pick_vmt: the
\* class attribute's initial value, or the name an earlier export to c.vmt
\* left there.
InitialName == <<"ThisShouldNeverAppear">>
MadeNames == {InitialName, <<"c">>}

\* The Material make_material constructed, by its name field (the export
\* step reads the other fields and assigns none of them).
Material(name) == [name |-> name]

\* A Material has been made and an output file has been chosen.
FilesInit ==
  /\ MainIdle
  /\ calc \in {[op |-> "target", out |-> o, made |-> Material(n)] :
                  o \in OutPaths, n \in MadeNames}

\* export() calls backend.pick_vmt(targetPath).
resolve ==
  /\ calc.op = "target"
  /\ calc' = [op |-> "export", out |-> calc.out,
              path |-> pick_vmt(calc.out).path, name |-> pick_vmt(calc.out).name,
              made |-> calc.made, material |-> calc.made, entered |-> FALSE,
              files |-> <<>>, raised |-> FALSE]
  /\ UNCHANGED mainVars

\* backend.export up to `Writing files...`: `material.name = self.name`.
exportEnter ==
  /\ calc.op = "export"
  /\ ~calc.entered
  /\ calc' = [calc EXCEPT !.entered = TRUE, !.material.name = calc.name]
  /\ UNCHANGED mainVars

\* backend.export writes its next file, or the write raises and export ends.
write(ok) ==
  /\ calc.op = "export"
  /\ calc.entered
  /\ ~calc.raised
  /\ Len(calc.files) < Len(writes(calc.path, calc.name))
  /\ calc' = IF ok
               THEN [calc EXCEPT !.files =
                        Append(@, writes(calc.path, calc.name)[Len(calc.files) + 1])]
               ELSE [calc EXCEPT !.raised = TRUE]
  /\ UNCHANGED mainVars

FilesNext ==
  \/ resolve
  \/ exportEnter
  \/ \E ok \in BOOLEAN : write(ok)

FilesSpec == FilesInit /\ [][FilesNext]_vars

\* ================================================================ claims
ExportFrames == {i \in 1..Len(stack) : stack[i].op = "export"}
AnyFileChanged == \E file \in Paths, c \in {Corrupt} \cup Contents : on_file_changed(file, c)

\* C1: at most one export cycle is in flight, whatever triggers arrive while
\* one is suspended in processEvents or a dialog; a cycle that has written
\* all its files did so with no other cycle open.
C1_SingleExport ==
  /\ Cardinality(ExportFrames) <= 1
  /\ (exporting <=> ExportFrames # {})
  /\ (written # Nothing /\ last.res = "ok" => ExportFrames = {})

\* A debounce timeout was dropped while an export waited in its target dialog.
C1_Witness ==
  /\ stack # <<>>
  /\ Top.op = "export" /\ Top.pc = "target"
  /\ last = Last("export", "noop", "timer")

\* C2: the debounce timer starts no export cycle once watch mode is off.
C2_NoExportAfterStop ==
  last = Last("export", "started", "timer") => watching

\* C3 as stated: a notification handled while an export is in flight leaves
\* the debounce timer as it was.
C3_Original ==
  [][(exporting /\ AnyFileChanged) => UNCHANGED watcherCooldown]_vars

\* C3 amended: a notification handled while an export is in flight restarts
\* the debounce timer and starts no export itself; the timeout is dropped
\* while that export is still in flight and starts a cycle once it is over.
C3_Amended ==
  [][/\ (exporting /\ watching /\ AnyFileChanged) =>
          /\ watcherCooldown' = DebounceMs
          /\ written' = Nothing
          /\ UNCHANGED <<exporting, stack>>
     /\ timeout =>
          /\ exporting'
          /\ IF exporting THEN stack' = stack
             ELSE Len(stack') = Len(stack) + 1 /\ stack'[Len(stack')].pc = "events"
    ]_vars

\* A notification was handled during an export and the timer is running.
C3_Witness ==
  /\ exporting
  /\ last = Last("on_file_changed", "ok", "-")
  /\ watcherCooldown = DebounceMs

\* The state a timeout leaves: a full window has passed since the last
\* notification, the timer is inactive, and an export is in flight (the one
\* just started, suspended in processEvents, or the one that made it a no-op).
C4_TimeoutStep ==
  (last.op = "export" /\ last.trig = "timer") =>
     /\ sinceNotify >= DebounceMs
     /\ watcherCooldown = -1
     /\ exporting
     /\ (last.res = "started" =>
            /\ stack # <<>>
            /\ Top = Frame("export", "events", "timer", NoMat))

\* C4: the timer fires once per burst, a full window after the last
\* notification, and starts a cycle unless an export is in flight; a running
\* timer does fire unless a further notification restarts it.
C4_Debounce ==
  /\ []C4_TimeoutStep
  /\ (watcherCooldown >= 0) ~> (watcherCooldown = -1 \/ sinceNotify = 0)

\* The timer has started an export cycle.
C4_Witness ==
  /\ last = Last("export", "started", "timer")
  /\ watching
  /\ sinceNotify = DebounceMs

\* C5: while watching, the watch set is the set of non-absent role paths.
C5_WatchSetInSync ==
  watching => watcherFiles = CurrentPaths

\* C6: after a successful pick or clear while watching, the watch set is
\* exactly the set of non-absent role paths.
C6_Reconciled ==
  (last.op \in {"picked", "load_preset"} /\ last.res = "ok" /\ watching)
     => watcherFiles = CurrentPaths

\* A pick while watching after which one path is watched for two roles.
C6_Witness ==
  /\ last = Last("picked", "ok", "-")
  /\ watching
  /\ Cardinality(watcherFiles) = 1
  /\ \A r \in Roles : rolePath[r] # 0

\* C7: a watch-triggered export that succeeds writes, for every role with a
\* path, the content the file has when the export runs.
C7_UpToDate ==
  last = Last("exportProcessed", "ok", "timer") =>
     \A r \in Roles : rolePath[r] # 0 => written.mat[r] = disk[rolePath[r]]

\* C8: a pick that raises changes neither the stored paths nor the images.
C8_NoPartialState ==
  [][(\E kind \in Roles, p \in Paths : pickRaises(p) /\ picked(kind, p))
        => UNCHANGED <<rolePath, image>>]_vars

\* C9: a stored image comes with a stored path, the one it was decoded from.
C9_ChannelEntry ==
  \A r \in Roles : image[r] # NoImage => (rolePath[r] # 0 /\ image[r][1] = rolePath[r])

\* C10: watch mode is entered only with a target and with the watch set of
\* the current role paths; declining the prompt leaves watch mode off.
C10_WatchEntry ==
  /\ (last.op \in {"watch", "watchTargetPicked"} /\ last.res = "on") =>
        (watching /\ target # 0 /\ watcherFiles = CurrentPaths)
  /\ (last.op = "watchTargetPicked" /\ last.trig = "declined") =>
        (~watching /\ watcherFiles = {})

\* The image make_material fetched for a role, and the assembled Material.
Supplied(r) == getImageIn(Store(calc.sizes), r, calc.noCache)
Assembled == calc.op = "material" /\ calc.mat.ok
RefSize == IF Supplied("normal") # None THEN Supplied("normal").size
           ELSE Supplied("roughness").size

\* C11 as stated: every channel of the Material has the Normal input's size
\* if Normal was supplied, else the Roughness input's, and so has the Material.
C11_Original ==
  Assembled =>
     /\ calc.mat.size = RefSize
     /\ \A r \in AllRoles : calc.mat.chan[r] # None => calc.mat.chan[r].size = RefSize

\* C11 amended: roughness, metallic, normal and height have the reference
\* size and so has the Material; albedo keeps the size of its input, and
\* emit and AO, when present, have the albedo's size.
C11_Amended ==
  Assembled =>
     /\ calc.mat.size = RefSize
     /\ \A r \in {"roughness", "metallic", "normal", "height"} :
           calc.mat.chan[r].size = RefSize
     /\ calc.mat.chan["albedo"].size = Supplied("albedo").size
     /\ \A r \in {"emit", "ao"} :
           calc.mat.chan[r] # None => calc.mat.chan[r].size = Supplied("albedo").size

\* A Material assembled from a normal map, an emit map and an albedo of
\* another size than the normal map.
C11_Witness ==
  /\ Assembled
  /\ Supplied("normal") # None
  /\ Supplied("emit") # None
  /\ Supplied("albedo").size # RefSize
  /\ Supplied("roughness").size # RefSize

\* C18: without the cache every role that has a path yields the image
\* decoded from its file now and every role without a path yields none;
\* with the cache the image decoded at pick time is used.
C18_NoCacheRetrieval ==
  Assembled =>
     \A r \in AllRoles :
        IF Store(calc.sizes).path[r] # 0
          THEN IF calc.noCache
                 THEN /\ calc.mat.chan[r].src = "disk"
                      /\ calc.mat.chan[r].color = Store(calc.sizes).file[r].color
                      /\ r \in {"albedo", "normal"} =>
                            calc.mat.chan[r].size = Store(calc.sizes).file[r].size
                      /\ calc.mat.image[r] = Store(calc.sizes).file[r]
                 ELSE /\ calc.mat.chan[r].src = "cache"
                      /\ r \in {"albedo", "normal"} =>
                            calc.mat.chan[r].size = Store(calc.sizes).image[r].size
                      /\ calc.mat.image[r] = Store(calc.sizes).image[r]
          ELSE /\ calc.mat.chan[r].src \in {"none", "blank"}
               /\ calc.mat.image[r] = None

\* A Material assembled without the cache from a store in which metallic
\* has no path.
C18_Witness ==
  /\ Assembled
  /\ calc.noCache
  /\ Store(calc.sizes).path["metallic"] = 0
  /\ Store(calc.sizes).path["normal"] # 0
  /\ calc.mat.chan["normal"].size # Store(calc.sizes).image["normal"].size

\* C19: with albedo and roughness present, an absent metallic is the
\* constant 0.0 (one component), an absent normal the constant
\* (0.5, 0.5, 1.0) (three components), an absent height the constant 0.5
\* (one component), each at the reference size; an absent emit or AO stays
\* absent.
C19_Defaults ==
  Assembled =>
     /\ Supplied("metallic") = None => calc.mat.chan["metallic"] = Img(RefSize, "blank", <<0>>, "L")
     /\ Supplied("normal") = None =>
           calc.mat.chan["normal"] = Img(RefSize, "blank", <<5, 5, 10>>, "RGB")
     /\ Supplied("height") = None => calc.mat.chan["height"] = Img(RefSize, "blank", <<5>>, "L")
     /\ \A r \in {"emit", "ao"} : Supplied(r) = None => calc.mat.chan[r] = None

\* A Material assembled from albedo and roughness alone.
C19_Witness ==
  /\ Assembled
  /\ \A r \in AllRoles \ {"albedo", "roughness"} : Supplied(r) = None

\* The step is one of handler op that satisfies A: every handler leaves its
\* name in last, which is looked at first.
StepOf(op, A) == last'.op = op /\ A

\* make_material runs in an export attempt.
Assembly == StepOf("exportProcessed", \E failAt \in FailAts : exportProcessed(failAt))
MandatoryAbsent == rolePath["albedo"] = 0 \/ rolePath["roughness"] = 0
ErrorBox == stack # <<>> /\ Top.op = "export" /\ Top.pc = "error"

\* C12 as stated: an export attempt made while albedo or roughness is absent
\* fails with the missing-channel error and writes no file, in both modes.
C12_Original ==
  [][(MandatoryAbsent /\ Assembly) =>
        /\ ~make_material(reloadOnExport).ok
        /\ make_material(reloadOnExport).err = "missing"
        /\ written' = Nothing
        /\ ErrorBox'
    ]_vars

\* C12 amended: such an attempt fails and writes no file, in both modes; the
\* error is the missing-channel error unless, without the cache, albedo has
\* a path whose file cannot be decoded: albedo is decoded before roughness
\* is looked at and the decode error is raised.
C12_Amended ==
  [][(MandatoryAbsent /\ Assembly) =>
        /\ ~make_material(reloadOnExport).ok
        /\ make_material(reloadOnExport).err =
              IF reloadOnExport /\ rolePath["albedo"] # 0 /\ ~Decodable(rolePath["albedo"])
                THEN "decode" ELSE "missing"
        /\ written' = Nothing
        /\ ErrorBox'
    ]_vars

\* An export attempt has failed for want of roughness, with a target set.
C12_Witness ==
  /\ last.op = "exportProcessed" /\ last.res = "failed"
  /\ rolePath["albedo"] # 0 /\ rolePath["roughness"] = 0
  /\ target # 0
  /\ written = Nothing
  /\ ErrorBox

\* The 'materials' components of a directory and the one nearest the file.
Resolved == calc.op = "export"
Anchors(dd) == {i \in 1..Len(dd) : dd[i] = "materials"}
Nearest(dd) == CHOOSE i \in Anchors(dd) : \A j \in Anchors(dd) : j <= i
RECURSIVE SlashJoin(_)
SlashJoin(seq) == IF seq = <<>> THEN <<>> ELSE <<Head(seq), "/">> \o SlashJoin(Tail(seq))
\* The material name the claim gives an output path whose file name,
\* stripped, is stem.
NameFrom(out, stem) ==
  IF Anchors(out.dir) = {} THEN stem
  ELSE SlashJoin(SubSeq(out.dir, Nearest(out.dir) + 1, Len(out.dir))) \o stem
\* A file name without its extension, and without a trailing ".vmt".
Stem(file) ==
  IF Len(file) > 1 /\ file[Len(file)] \in {".vmt", ".txt"}
    THEN SubSeq(file, 1, Len(file) - 1) ELSE file
VmtStripped(file) ==
  IF file # <<>> /\ file[Len(file)] = ".vmt" THEN SubSeq(file, 1, Len(file) - 1) ELSE file

\* C13 as stated: the output directory is the file's parent; the name is the
\* components after the nearest 'materials', joined with '/', then the file
\* name with its extension stripped, or that file name alone without one.
C13_Original ==
  Resolved =>
     /\ calc.path = calc.out.dir
     /\ calc.name = NameFrom(calc.out, Stem(calc.out.file))

\* C13 amended: the same with the file name stripped of a trailing '.vmt'
\* only; any other extension stays in the name.
C13_Amended ==
  Resolved =>
     /\ calc.path = calc.out.dir
     /\ calc.name = NameFrom(calc.out, VmtStripped(calc.out.file))

\* A file without the .vmt extension, two directories below 'materials'.
C13_Witness ==
  /\ Resolved
  /\ Anchors(calc.out.dir) # {}
  /\ Nearest(calc.out.dir) + 2 = Len(calc.out.dir)
  /\ calc.out.dir[Len(calc.out.dir)] # calc.out.dir[Len(calc.out.dir) - 1]
  /\ calc.out.file = <<"c", ".txt">>

\* The files written so far are the descriptor, then the textures in order.
InWriteOrder ==
  Resolved =>
     \A i \in 1..Len(calc.files) :
        LET rel == calc.files[i].rel IN
        IF i = 1 THEN rel[Len(rel)] = ".vmt"
        ELSE /\ Len(rel) >= 2
             /\ rel[Len(rel)] = ".vtf"
             /\ rel[Len(rel) - 1] = Textures[i - 1]

\* C14: the descriptor is written before any texture and the textures one
\* after another; when a write fails the files written before it stay, and
\* no file is written after it.
C14_PersistOrder ==
  /\ []InWriteOrder
  /\ [][Resolved =>
          /\ Len(calc'.files) >= Len(calc.files)
          /\ SubSeq(calc'.files, 1, Len(calc.files)) = calc.files
          /\ calc.raised => calc' = calc
       ]_vars

\* The save of the second texture has failed.
C14_Witness ==
  /\ Resolved
  /\ calc.raised
  /\ Len(calc.files) = 2

\* The last '/'-separated component of a string.
LastComponent(str) ==
  CHOOSE c \in {SubSeq(str, k, Len(str)) : k \in 1..(Len(str) + 1)} :
     /\ \A j \in 1..Len(c) : c[j] # "/"
     /\ Len(c) = Len(str) \/ str[Len(str) - Len(c)] = "/"

\* C20: every file written is directly under the output directory and is
\* named by the last component of the material name, with .vmt or the
\* texture's suffix and .vtf; no '/' of the name is in a file name.
C20_Placement ==
  Resolved =>
     \A i \in 1..Len(calc.files) :
        /\ calc.files[i].dir = calc.out.dir
        /\ calc.files[i].dir = calc.path
        /\ \A j \in 1..Len(calc.files[i].rel) : calc.files[i].rel[j] # "/"
        /\ calc.files[i].rel =
              LastComponent(calc.name)
                 \o (IF i = 1 THEN <<".vmt">> ELSE <<Textures[i - 1], ".vtf">>)

\* Every file of a material with a virtual sub-path has been written.
C20_Witness ==
  /\ Resolved
  /\ Len(calc.files) = 1 + NumTextures
  /\ \E j \in 1..Len(calc.name) : calc.name[j] = "/"

\* The ways an export attempt ends without success: the user declines the
\* target dialog; assembly raises; a write raises.
Declined ==
  StepOf("exportTargetPicked",
         target' = 0 /\ \E failAt \in FailAts : exportTargetPicked(0, failAt))
AssemblyRaises == Assembly /\ ~make_material(reloadOnExport).ok
PersistRaises ==
  \/ StepOf("exportProcessed",
            /\ target # 0
            /\ make_material(reloadOnExport).ok
            /\ \E failAt \in 0..NumRoles : exportProcessed(failAt))
  \/ StepOf("exportTargetPicked",
            /\ target' # 0
            /\ \E failAt \in 0..NumRoles, answer \in 0..NumTargets :
                  exportTargetPicked(answer, failAt))
ErrorClosed == StepOf("exportErrorClosed", exportErrorClosed)

\* C15: a declined target ends the export silently, with no file written;
\* any other exception is reported in a message box; either way progress is
\* back at 0 and the export button is enabled again when the handler ends.
C15_Classification ==
  [][/\ Declined =>
          /\ written' = Nothing
          /\ ~ErrorBox'
          /\ stack' = Pop
          /\ progress' = 0
          /\ exportEnabled'
     /\ (AssemblyRaises \/ PersistRaises) =>
          /\ ErrorBox'
          /\ progress' = 0
     /\ ErrorClosed =>
          /\ progress' = 0
          /\ exportEnabled'
          /\ stack' = Pop
    ]_vars

\* An export has failed, the failure was reported and the box closed.
C15_Witness ==
  /\ last.op = "exportErrorClosed"
  /\ progress = 0
  /\ exportEnabled
  /\ stack = <<>>

\* An export cycle has just ended: by success, by cancel or by a failure
\* whose message box was closed.
Ended ==
  /\ last.op \in {"exportProcessed", "exportTargetPicked", "exportErrorClosed"}
  /\ last.res \in {"ok", "cancelled", "reported"}
Trigger ==
  \/ StepOf("export", export \/ export_as \/ timeout)
  \/ StepOf("export_as", export_as)
TriggerStarts == [][(~exporting /\ Trigger) => (exporting' /\ last'.res = "started")]_vars

\* C16 as stated: after every cycle the flag is false and the controller is
\* Quiescent (watching, no debounce window pending, no export in flight), so
\* the next trigger starts an export.
C16_Original ==
  /\ [](Ended => (~exporting /\ (watching => watcherCooldown = -1)))
  /\ TriggerStarts

\* C16 amended: after every cycle the flag is false, so the next trigger
\* starts an export; the timer may still be running (DebouncePending).
C16_Amended ==
  /\ [](Ended => (~exporting /\ ExportFrames = {}))
  /\ TriggerStarts

\* A failed cycle has ended while a debounce window is pending.
C16_Witness ==
  /\ Ended
  /\ last.res = "reported"
  /\ watching
  /\ watcherCooldown > 0
  /\ ~exporting

\* C17: an export that fails or is cancelled neither starts the debounce
\* timer nor another export; a cycle is started only by a manual trigger or
\* by the timeout, and the timer only by a file-change notification.
C17_NoRetry ==
  [][/\ (Declined \/ AssemblyRaises \/ PersistRaises \/ ErrorClosed) =>
          /\ UNCHANGED watcherCooldown
          /\ stack' = Pop \/ (Len(stack') = Len(stack) /\ ErrorBox')
     /\ (Len(stack') > Len(stack) /\ stack'[Len(stack')].op = "export") => Trigger
     /\ (exporting' /\ ~exporting) => Trigger
     /\ watcherCooldown' > watcherCooldown => (watching /\ AnyFileChanged)
    ]_vars

\* A watch-triggered export has failed and nothing is scheduled.
C17_Witness ==
  /\ last = Last("exportErrorClosed", "reported", "timer")
  /\ watching
  /\ watcherCooldown = -1
  /\ ~exporting

\* ------------------------------------------------------ the stored target
\* The file dialog of pick_target is answered with a file.
TargetChosen ==
  /\ last'.op \in {"exportTargetPicked", "watchTargetPicked"}
  /\ target' # 0
\* Export As runs past its guard.
ExportAsClears == StepOf("export", export_as) /\ target' = 0
PresetClears == last'.op \in {"load_preset", "save_preset"} /\ target' = 0
\* An export attempt made while a target is stored neither prompts nor
\* changes the target.
StoredTargetUsed ==
  (target # 0 /\ last'.op \in {"export", "exportProcessed", "exportErrorClosed"}
     /\ ~ExportAsClears)
    => (target' = target /\ last'.res # "prompt")

\* C21 as stated: an export with a stored target neither prompts nor changes
\* it, and only an explicit target choice or Export As alters the target.
C21_Original ==
  [][/\ StoredTargetUsed
     /\ target' # target => (TargetChosen \/ ExportAsClears)
    ]_vars

\* C21: an export with a stored target neither prompts nor changes it; the
\* target is altered only by an explicit target choice, by Export As, and by
\* Load Preset and Save Preset, which both clear it.
C21_Amended ==
  [][/\ StoredTargetUsed
     /\ target' # target => (TargetChosen \/ ExportAsClears \/ PresetClears)
     /\ last'.op \in {"load_preset", "save_preset"} => target' = 0
    ]_vars

\* A preset was saved in watch mode, which was entered with a target: the
\* target is gone.
C21_Witness ==
  /\ last.op = "save_preset"
  /\ watching
  /\ target = 0

\* ------------------------------------------------- the Material in export
\* C22: the export step leaves the Material it is given as make_material
\* constructed it.
C22_NeverMutated == Resolved => calc.material = calc.made

\* ------------------------------------------------------ the channel store
\* C23: the stored path and the stored image of every role change only in
\* a pick or a clear (the picks of Load Preset included); assembling a
\* material and exporting leave them as they were.
C23_OnlyPick ==
  [][(rolePath' # rolePath \/ image' # image) => last'.op \in {"picked", "load_preset"}]_vars

\* ---------------------------------------------------- guarded triggers
\* Export or Export As is invoked while an export is in flight.
GuardedTrigger ==
  /\ exporting
  /\ last'.op \in {"export", "export_as"}
  /\ last'.trig = "user"
  /\ (export \/ export_as)

\* C24: Export or Export As invoked while an export is in flight changes
\* nothing: the target, the flag (still true), the store, the watch state,
\* the timer, the progress, the button and the suspended handlers stay as
\* they were, no file is written and no dialog is opened.
C24_GuardedNoOp ==
  [][GuardedTrigger =>
        /\ target' = target
        /\ exporting' /\ exporting
        /\ UNCHANGED <<rolePath, image, disk, watching, watcherFiles, watcherCooldown,
                       progress, exportEnabled, stack, pending>>
        /\ written' = Nothing
        /\ last'.res = "noop"
    ]_vars

\* Export As was invoked during a watch-triggered export whose target is
\* stored.
C24_Witness ==
  /\ last = Last("export_as", "noop", "user")
  /\ exporting
  /\ target # 0
  /\ stack # <<>> /\ Top.trig = "timer"

\* ------------------------------------------------- the watch set when off
\* C25: whenever watch mode is off the watch set is empty, so the handler
\* of a file change, which runs for watched paths only, never finds watch
\* mode off and its assertion never fails.
C25_OffMeansEmpty ==
  /\ ~watching => watcherFiles = {}
  /\ ~(last.op = "on_file_changed" /\ last.res = "raised")

\* Watch mode has just been switched off while source paths are picked.
C25_Witness ==
  /\ last = Last("watch", "off", "-")
  /\ ~watching
  /\ CurrentPaths # {}
  /\ watcherFiles = {}

\* --------------------------------------------- the target in watch mode
\* C26: while watch mode is on a target is stored, and no export started by
\* the timer in watch mode has to prompt for one.
C26_TargetWhileWatching ==
  /\ watching => target # 0
  /\ ~(watching /\ last = Last("exportProcessed", "prompt", "timer"))

\* ------------------------------------------------------- no lost change
\* C27: while watch mode stays on, a file change that was handled and has
\* not been followed by the start of an export cycle still has the timer
\* running that will start one: no timeout is used up, by firing during
\* another export, without an export being started.
C27_NoLostChange == (watching /\ pending = "yes") => watcherCooldown >= 0
====
